---- MODULE Spec2Model ----
(***************************************************************************)
(* Model of the icon scripts of math-blocks-complete-app:                  *)
(*   create_bond_icon.py  render variant  (generate_ios_icons)             *)
(*   generate_icon.py     render variant  (generate_ios_icons)             *)
(*   resize_icons.py      resize variant  (main, resize_icon)              *)
(*                                                                         *)
(* Three specifications:                                                   *)
(*   Spec        the batch drivers acting on the output directory          *)
(*   SpecRender  create_bond_to_ten_icon drawing one icon, shape by shape  *)
(*   SpecName    the (size, scale) -> filename mapping on arbitrary input  *)
(***************************************************************************)
EXTENDS Integers, Sequences, FiniteSets, TLC

VARIABLES
    \* ---- batch driver (Spec) ----
    script,      \* which script is run
    font,        \* font availability of the environment
    srcExists,   \* icon/bond_to_ten_icon_167x167.png exists
    failing,     \* indices of resize table entries whose resize_icon raises
    failAt,      \* where a failing entry raises
    dirExists,   \* the AppIcon.appiconset directory exists
    files,       \* the directory: file name -> image
    pc,          \* position of the run
    i,           \* loop index into the table (1-based)
    run,         \* number of the current run of the script
    log,         \* console lines of the current run
    atStart,     \* directory at the start of the current run
    \* ---- renderer (SpecRender) ----
    rScript, rSize, rFont, rPc, rShapes, rLabels, rImg,
    \* ---- file namer (SpecName) ----
    nScript, nSize, nScale, nOther, nPc, nFile, nOtherFile, nWritten

batchVars  == <<script, font, srcExists, failing, failAt, dirExists, files, pc, i, run,
                log, atStart>>
renderVars == <<rScript, rSize, rFont, rPc, rShapes, rLabels, rImg>>
nameVars   == <<nScript, nSize, nScale, nOther, nPc, nFile, nOtherFile, nWritten>>
vars       == <<batchVars, renderVars, nameVars>>

(***************************************************************************)
(* Bounds of the model                                                     *)
(***************************************************************************)
\* the files an initial directory may hold: every subset of the first MaxPre
\* names of PreCandidates
MaxPre == 5
\* at most MaxFail entries of the resize table fail in a run
MaxFail == 1
\* the script is run at most MaxRuns times in a row
MaxRuns == 2
\* the renderer and the namer are tried on every dimension 1..MaxDim (and on
\* every dimension of the tables)
MaxDim == 130

(***************************************************************************)
(* Helpers                                                                 *)
(***************************************************************************)
Max(a, b) == IF a >= b THEN a ELSE b
Min(a, b) == IF a <= b THEN a ELSE b
Range(s) == {s[k] : k \in DOMAIN s}

BOND     == "create_bond_icon.py"
GENERATE == "generate_icon.py"
RESIZE   == "resize_icons.py"
RenderScripts == {BOND, GENERATE}
Scripts == RenderScripts \cup {RESIZE}

\* the environment's fonts: the Helvetica files load; only PIL's default font
\* loads; no font loads at all
Fonts == {"truetype", "default", "none"}

(***************************************************************************)
(* The size tables                                                         *)
(***************************************************************************)
\* ICON_SIZES of create_bond_icon.py and of generate_icon.py (identical)
ICON_SIZES ==
    << <<20, "@1x">>, <<40, "@2x">>, <<60, "@3x">>,
       <<29, "@1x">>, <<58, "@2x">>, <<87, "@3x">>,
       <<40, "@1x">>, <<80, "@2x">>, <<120, "@3x">>,
       <<120, "@2x">>, <<180, "@3x">>,
       <<76, "@1x">>, <<152, "@2x">>,
       <<167, "@2x">>,
       <<1024, "@1x">> >>

\* ICON_SIZES of resize_icons.py
RESIZE_ICON_SIZES ==
    << <<40, "Icon-App-20x20@2x.png">>,
       <<60, "Icon-App-20x20@3x.png">>,
       <<29, "Icon-App-29x29@1x.png">>,
       <<58, "Icon-App-29x29@2x.png">>,
       <<87, "Icon-App-29x29@3x.png">>,
       <<80, "Icon-App-40x40@2x.png">>,
       <<120, "Icon-App-40x40@3x.png">>,
       <<120, "Icon-App-60x60@2x.png">>,
       <<20, "Icon-App-20x20@1x.png">>,
       <<40, "Icon-App-40x40@1x.png">>,
       <<1024, "Icon-App-1024x1024@1x.png">> >>

STORE_SIZE == 1024
IPAD_PRO_SIZE == 167
STORE_ICON == "Icon-App-1024x1024@1x.png"
IPAD_PRO_ICON == "Icon-App-83.5x83.5@2x.png"
\* the one file the resize variant rewrites even when it exists
FIX_ICON == "Icon-App-60x60@2x.png"
SOURCE_ICON == "icon/bond_to_ten_icon_167x167.png"
SOURCE_DIM == 167

(***************************************************************************)
(* The file namer of the render scripts                                    *)
(***************************************************************************)
\* the base size taken for the pixel size, whatever the scale
base_size_bond_NoDiv(size, scale) == size

\* create_bond_icon.py: the if/elif chain on scale
base_size_bond(size, scale) ==
    IF scale = "@2x" THEN size \div 2
    ELSE IF scale = "@3x" THEN size \div 3
    ELSE size

\* generate_icon.py: the dict lookup with default size
base_size_generate(size, scale) ==
    LET table == [s \in {"@1x", "@2x", "@3x"} |->
                    IF s = "@1x" THEN size
                    ELSE IF s = "@2x" THEN size \div 2 ELSE size \div 3]
    IN IF scale \in DOMAIN table THEN table[scale] ELSE size

base_size(s, size, scale) ==
    IF s = BOND THEN base_size_bond(size, scale)
    ELSE base_size_generate(size, scale)

\* the chain with the scale label left out of every name
FilenameFor_NoScale(size, base, scale) ==
    IF size = STORE_SIZE THEN STORE_ICON
    ELSE IF base = 20 THEN "Icon-App-20x20.png"
    ELSE IF base = 29 THEN "Icon-App-29x29.png"
    ELSE IF base = 40 THEN "Icon-App-40x40.png"
    ELSE IF base = 60 THEN "Icon-App-60x60.png"
    ELSE IF base = 76 THEN "Icon-App-76x76.png"
    ELSE IF size = IPAD_PRO_SIZE THEN IPAD_PRO_ICON
    ELSE "Icon-App-" \o ToString(size) \o "x" \o ToString(size) \o ".png"

\* the chain with the scale label kept in the fallback name
FilenameFor_ScaledFallback(size, base, scale) ==
    IF size = STORE_SIZE THEN STORE_ICON
    ELSE IF base = 20 THEN "Icon-App-20x20" \o scale \o ".png"
    ELSE IF base = 29 THEN "Icon-App-29x29" \o scale \o ".png"
    ELSE IF base = 40 THEN "Icon-App-40x40" \o scale \o ".png"
    ELSE IF base = 60 THEN "Icon-App-60x60" \o scale \o ".png"
    ELSE IF base = 76 THEN "Icon-App-76x76" \o scale \o ".png"
    ELSE IF size = IPAD_PRO_SIZE THEN IPAD_PRO_ICON
    ELSE "Icon-App-" \o ToString(size) \o "x" \o ToString(size) \o scale \o ".png"

\* the filename chain, the same text in both render scripts
FilenameFor(size, base, scale) ==
    IF size = STORE_SIZE THEN STORE_ICON
    ELSE IF base = 20 THEN "Icon-App-20x20" \o scale \o ".png"
    ELSE IF base = 29 THEN "Icon-App-29x29" \o scale \o ".png"
    ELSE IF base = 40 THEN "Icon-App-40x40" \o scale \o ".png"
    ELSE IF base = 60 THEN "Icon-App-60x60" \o scale \o ".png"
    ELSE IF base = 76 THEN "Icon-App-76x76" \o scale \o ".png"
    ELSE IF size = IPAD_PRO_SIZE THEN IPAD_PRO_ICON
    ELSE "Icon-App-" \o ToString(size) \o "x" \o ToString(size) \o ".png"

(***************************************************************************)
(* The renderer: create_bond_to_ten_icon(size)                             *)
(* A drawn shape is its inclusive bounding box [kind, x1, y1, x2, y2].     *)
(***************************************************************************)
Box(kind, x1, y1, x2, y2) ==
    [kind |-> kind, x1 |-> x1, y1 |-> y1, x2 |-> x2, y2 |-> y2]

\* Image.new('RGB', (size, size), '#FFFFFF')
ImageNew(size) == [w |-> size, h |-> size]

\* the check with >= for >
ValidBox_NonStrict(x1, y1, x2, y2) == x2 >= x1 /\ y2 >= y1

\* the check made before a grid cell or a strip cell is drawn
ValidBox(x1, y1, x2, y2) == x2 > x1 /\ y2 > y1

\* ---- create_bond_icon.py ----
bond_margin(size) == Max(2, size \div 20)
bond_content_area(size) == size - 2 * bond_margin(size)
bond_block_spacing(size) == Max(2, bond_content_area(size) \div 20)
bond_hundred_size(size) ==
    Min(bond_content_area(size) \div 3,
        bond_content_area(size) - 2 * bond_block_spacing(size))
bond_hundred_x(size) ==
    bond_margin(size) + (bond_content_area(size) - bond_hundred_size(size)) \div 2
bond_hundred_y(size) == bond_margin(size)
bond_cell_size(size) == Max(1, bond_hundred_size(size) \div 10)

\* font is set only when size >= 100 and the truetype file loads
bond_font(size, f) == size >= 100 /\ f = "truetype"

bond_hundred_cells(size) ==
    IF bond_hundred_size(size) > 10
    THEN LET cell_size == bond_cell_size(size)
         IN { Box("hundred", x1, y1, x1 + cell_size - 1, y1 + cell_size - 1) :
                <<x1, y1>> \in
                  { c \in { <<bond_hundred_x(size) + col * cell_size,
                              bond_hundred_y(size) + row * cell_size>> :
                              row \in 0..9, col \in 0..9 } :
                      /\ cell_size >= 1
                      /\ ValidBox(c[1], c[2], c[1] + cell_size - 1,
                                  c[2] + cell_size - 1) } }
    ELSE {}

bond_hundred_label(size, f) ==
    IF bond_hundred_size(size) > 10 /\ bond_font(size, f) /\ size >= 60
    THEN {"100"} ELSE {}

bond_ten_y(size) ==
    bond_hundred_y(size) + bond_hundred_size(size) + bond_block_spacing(size)
bond_ten_width(size) ==
    Min((bond_content_area(size) * 3) \div 4, bond_hundred_size(size))
bond_ten_height(size) == Max(2, bond_content_area(size) \div 15)
bond_ten_x(size) ==
    bond_margin(size) + (bond_content_area(size) - bond_ten_width(size)) \div 2
bond_unit_width(size) == Max(1, bond_ten_width(size) \div 10)

bond_ten_cells(size) ==
    IF bond_ten_width(size) > 10 /\ bond_ten_height(size) > 0
    THEN LET unit_width == bond_unit_width(size)
         IN { Box("ten", x1, bond_ten_y(size), x1 + unit_width - 1,
                  bond_ten_y(size) + bond_ten_height(size)) :
                x1 \in { x \in { bond_ten_x(size) + k * unit_width : k \in 0..9 } :
                           /\ unit_width >= 1
                           /\ ValidBox(x, bond_ten_y(size), x + unit_width - 1,
                                       bond_ten_y(size) + bond_ten_height(size)) } }
    ELSE {}

bond_ten_label(size, f) ==
    IF bond_ten_width(size) > 10 /\ bond_ten_height(size) > 0
       /\ bond_font(size, f) /\ size >= 60
    THEN {"10"} ELSE {}

bond_unit_y(size) ==
    bond_ten_y(size) + bond_ten_height(size) + bond_block_spacing(size)
bond_unit_size(size) ==
    Max(4, Min(bond_content_area(size) \div 8, bond_hundred_size(size) \div 4))
bond_unit_x(size) ==
    bond_margin(size) + (bond_content_area(size) - bond_unit_size(size)) \div 2

bond_unit_square(size) ==
    IF bond_unit_size(size) > 2
    THEN { Box("unit", bond_unit_x(size), bond_unit_y(size),
               bond_unit_x(size) + bond_unit_size(size),
               bond_unit_y(size) + bond_unit_size(size)) }
    ELSE {}

bond_unit_label(size, f) ==
    IF bond_unit_size(size) > 2 /\ bond_font(size, f) /\ size >= 60
    THEN {"1"} ELSE {}

bond_border(size) ==
    IF size >= 120 THEN { Box("border", 1, 1, size - 2, size - 2) } ELSE {}

\* ---- generate_icon.py ----
gen_margin(size) == size \div 12
gen_content_size(size) == size - 2 * gen_margin(size)
gen_hundred_size(size) == gen_content_size(size) \div 3
gen_hundred_x(size) ==
    gen_margin(size) + (gen_content_size(size) - gen_hundred_size(size)) \div 2
gen_hundred_y(size) == gen_margin(size)
gen_cell_size(size) == Max(1, gen_hundred_size(size) \div 10)

\* truetype, else ImageFont.load_default(), else None
gen_font(f) == f # "none"

gen_hundred_cells(size) ==
    LET cell_size == gen_cell_size(size)
    IN { Box("hundred", x1, y1, x1 + cell_size - 1, y1 + cell_size - 1) :
           <<x1, y1>> \in
             { c \in { <<gen_hundred_x(size) + col * cell_size,
                         gen_hundred_y(size) + row * cell_size>> :
                         row \in 0..9, col \in 0..9 } :
                 ValidBox(c[1], c[2], c[1] + cell_size - 1,
                          c[2] + cell_size - 1) } }

gen_hundred_label(f) == IF gen_font(f) THEN {"100"} ELSE {}

gen_ten_width(size) == gen_content_size(size) \div 2
gen_ten_height(size) == gen_content_size(size) \div 12
gen_ten_x(size) == gen_margin(size)
gen_ten_y(size) == gen_hundred_y(size) + gen_hundred_size(size) + gen_margin(size)
gen_unit_width(size) == Max(1, gen_ten_width(size) \div 10)

gen_ten_cells(size) ==
    LET unit_width == gen_unit_width(size)
    IN { Box("ten", x1, gen_ten_y(size), x1 + unit_width - 1,
             gen_ten_y(size) + gen_ten_height(size)) :
           x1 \in { x \in { gen_ten_x(size) + k * unit_width : k \in 0..9 } :
                      ValidBox(x, gen_ten_y(size), x + unit_width - 1,
                               gen_ten_y(size) + gen_ten_height(size)) } }

gen_ten_label(f) == IF gen_font(f) THEN {"10"} ELSE {}

gen_unit_size(size) == gen_content_size(size) \div 8
gen_unit_x(size) == gen_margin(size) + gen_content_size(size) - gen_unit_size(size)
gen_unit_y(size) ==
    gen_ten_y(size) + gen_ten_height(size) + gen_margin(size) \div 2

\* drawn unconditionally
gen_unit_square(size) ==
    { Box("unit", gen_unit_x(size), gen_unit_y(size),
          gen_unit_x(size) + gen_unit_size(size),
          gen_unit_y(size) + gen_unit_size(size)) }

gen_unit_label(f) == IF gen_font(f) THEN {"1"} ELSE {}

gen_border(size) ==
    IF size >= 100 THEN { Box("border", 2, 2, size - 3, size - 3) } ELSE {}

\* ---- either script ----
HundredCells(s, size) ==
    IF s = BOND THEN bond_hundred_cells(size) ELSE gen_hundred_cells(size)
HundredLabel(s, size, f) ==
    IF s = BOND THEN bond_hundred_label(size, f) ELSE gen_hundred_label(f)
TenCells(s, size) ==
    IF s = BOND THEN bond_ten_cells(size) ELSE gen_ten_cells(size)
TenLabel(s, size, f) ==
    IF s = BOND THEN bond_ten_label(size, f) ELSE gen_ten_label(f)
UnitSquare(s, size) ==
    IF s = BOND THEN bond_unit_square(size) ELSE gen_unit_square(size)
UnitLabel(s, size, f) ==
    IF s = BOND THEN bond_unit_label(size, f) ELSE gen_unit_label(f)
Border(s, size) ==
    IF s = BOND THEN bond_border(size) ELSE gen_border(size)

\* the whole function: the image returned for (size), as the batch driver
\* stores it: its dimensions, what drew it, and how much was drawn
create_bond_to_ten_icon(s, size, f) ==
    [w      |-> ImageNew(size).w,
     h      |-> ImageNew(size).h,
     origin |-> s,
     shapes |-> Cardinality(HundredCells(s, size) \cup TenCells(s, size)
                            \cup UnitSquare(s, size) \cup Border(s, size)),
     labels |-> Cardinality(HundredLabel(s, size, f) \cup TenLabel(s, size, f)
                            \cup UnitLabel(s, size, f))]


(***************************************************************************)
(* The resize variant's image operations                                   *)
(***************************************************************************)
\* Image.open(source_path): the 167x167 source icon
SourceImage ==
    [w |-> SOURCE_DIM, h |-> SOURCE_DIM, origin |-> SOURCE_ICON,
     shapes |-> 0, labels |-> 0]

\* a resize whose output carries a value of the run that made it
resize_stamped(img, target_size) ==
    [img EXCEPT !.w = target_size, !.h = target_size,
                !.origin = "run " \o ToString(run)]

\* img.resize((target_size, target_size), Image.Resampling.LANCZOS)
resize(img, target_size) ==
    [img EXCEPT !.w = target_size, !.h = target_size]

\* a file that was in the directory before the first run
OldImage ==
    [w |-> 0, h |-> 0, origin |-> "old", shapes |-> 0, labels |-> 0]

\* a target that save opened for writing and did not finish
PartialImage ==
    [w |-> 0, h |-> 0, origin |-> "partial", shapes |-> 0, labels |-> 0]

\* where the try block of resize_icon raises for a failing entry: in
\* Image.open or resize, before the target is touched; in save, which has
\* truncated the target and leaves it unfinished; in save, which then removes
\* the target if it had created it
FailPoints == {"open", "save_partial", "save_removed"}

(***************************************************************************)
(* The batch drivers: generate_ios_icons (render) and main (resize)        *)
(***************************************************************************)
\* names an initial directory may hold: table names first, then a file no
\* table names
PreCandidates ==
    << FIX_ICON, "Icon-App-20x20@2x.png", STORE_ICON, "Contents.json",
       "Icon-App-76x76@1x.png", "Icon-App-40x40@3x.png",
       "Icon-App-29x29@1x.png" >>

PreNames == { PreCandidates[k] : k \in 1..Min(MaxPre, Len(PreCandidates)) }

Table == IF script = RESIZE THEN RESIZE_ICON_SIZES ELSE ICON_SIZES

Put(dir, name, img) == (name :> img) @@ dir

Snapshot == [dir |-> dirExists, files |-> files]

BatchInit ==
    /\ script \in Scripts
    /\ font \in Fonts
    /\ srcExists \in BOOLEAN
    /\ failing \in { F \in SUBSET (1..Len(RESIZE_ICON_SIZES)) :
                       Cardinality(F) <= MaxFail }
    \* what only the resize variant reads is fixed for the render variants,
    \* and the font for the resize variant
    /\ failAt \in FailPoints
    /\ failing = {} => failAt = "open"
    /\ script \in RenderScripts => srcExists /\ failing = {}
    /\ script = RESIZE => font = "none"
    /\ dirExists \in BOOLEAN
    /\ \E pre \in SUBSET PreNames :
          /\ ~dirExists => pre = {}
          /\ files = [n \in pre |-> OldImage]
    /\ pc = "start"
    /\ i = 1
    /\ run = 1
    /\ log = <<>>
    /\ atStart = [dir |-> dirExists, files |-> files]

\* the parts of the state a specification does not use
RenderIdle ==
    /\ rScript = "" /\ rSize = 0 /\ rFont = "none" /\ rPc = "idle"
    /\ rShapes = {} /\ rLabels = {} /\ rImg = [w |-> 0, h |-> 0]

NameIdle ==
    /\ nScript = "" /\ nSize = 0 /\ nScale = "" /\ nOther = 1 /\ nPc = "idle"
    /\ nFile = "" /\ nOtherFile = "" /\ nWritten = FALSE

BatchIdle ==
    /\ script = "" /\ font = "none" /\ srcExists = FALSE /\ failing = {}
    /\ failAt = "open"
    /\ dirExists = FALSE /\ files = [n \in {} |-> OldImage]
    /\ pc = "idle" /\ i = 1 /\ run = 1 /\ log = <<>>
    /\ atStart = [dir |-> FALSE, files |-> [n \in {} |-> OldImage]]

\* os.makedirs(icon_dir, exist_ok=True)
MakeDirs ==
    /\ script \in RenderScripts
    /\ pc = "start"
    /\ dirExists' = TRUE
    /\ pc' = "loop"
    /\ UNCHANGED <<script, font, srcExists, failing, failAt, files, i, run, log, atStart>>
    /\ UNCHANGED <<renderVars, nameVars>>

\* one iteration of the render loop: unpack the entry, render, name, save
RenderEntry ==
    /\ script \in RenderScripts
    /\ pc = "loop"
    /\ i <= Len(ICON_SIZES)
    /\ LET size_info == ICON_SIZES[i]
           size      == size_info[1]
           scale     == IF Len(size_info) = 2 THEN size_info[2] ELSE "@1x"
           base      == IF Len(size_info) = 2
                        THEN base_size(script, size, scale) ELSE size
           icon      == create_bond_to_ten_icon(script, size, font)
           filename  == FilenameFor(size, base, scale)
       \* icon.save raises when the directory is missing: nothing catches it
       IN IF dirExists
          THEN /\ files' = Put(files, filename, icon)
               /\ log' = Append(log, <<"generated", filename>>)
               /\ i' = i + 1
               /\ pc' = pc
          ELSE /\ pc' = "crashed"
               /\ UNCHANGED <<files, log, i>>
    /\ UNCHANGED <<script, font, srcExists, failing, failAt, dirExists, run, atStart>>
    /\ UNCHANGED <<renderVars, nameVars>>

\* the loop is over: generate_ios_icons returns, "complete" is printed
RenderDone ==
    /\ script \in RenderScripts
    /\ pc = "loop"
    /\ i > Len(ICON_SIZES)
    /\ pc' = "done"
    /\ log' = Append(log, <<"complete", "">>)
    /\ UNCHANGED <<script, font, srcExists, failing, failAt, dirExists, files, i, run,
                   atStart>>
    /\ UNCHANGED <<renderVars, nameVars>>

\* the check that prints and does not return
MainCheckSource_NoReturn ==
    /\ script = RESIZE
    /\ pc = "start"
    /\ pc' = "loop"
    /\ log' = IF ~srcExists
              THEN Append(log, <<"source_not_found", SOURCE_ICON>>) ELSE log
    /\ UNCHANGED <<script, font, srcExists, failing, failAt, dirExists, files, i, run,
                   atStart>>
    /\ UNCHANGED <<renderVars, nameVars>>

\* main: if not os.path.exists(source_icon): print; return
MainCheckSource ==
    /\ script = RESIZE
    /\ pc = "start"
    /\ IF ~srcExists
       THEN /\ pc' = "done"
            /\ log' = Append(log, <<"source_not_found", SOURCE_ICON>>)
       ELSE /\ pc' = "loop"
            /\ log' = log
    /\ UNCHANGED <<script, font, srcExists, failing, failAt, dirExists, files, i, run,
                   atStart>>
    /\ UNCHANGED <<renderVars, nameVars>>

\* the try block of resize_icon: the directory it leaves, the line printed
\* and whether it raised. Image.open raises on a missing source; save raises
\* on a missing directory before any file is touched; a failing entry raises
\* where failAt says
resize_icon_try(target_size, target_filename, fails) ==
    IF ~srcExists \/ (fails /\ failAt = "open") \/ ~dirExists
    THEN [files |-> files, line |-> <<"error", target_filename>>, error |-> TRUE]
    ELSE IF fails
    THEN [files |-> IF failAt = "save_removed" /\ target_filename \notin DOMAIN files
                    THEN files
                    ELSE Put(files, target_filename, PartialImage),
          line  |-> <<"error", target_filename>>, error |-> TRUE]
    ELSE [files |-> Put(files, target_filename, resize(SourceImage, target_size)),
          line  |-> <<"created", target_filename>>, error |-> FALSE]

\* resize_icon without its except clause: the exception leaves the function
resize_icon_uncaught(target_size, target_filename, fails) ==
    LET r == resize_icon_try(target_size, target_filename, fails)
    IN [files |-> r.files, line |-> r.line, raised |-> r.error]

\* resize_icon(source_path, target_size, target_filename): "except Exception"
\* catches whatever the try block raised and prints the error line
resize_icon(target_size, target_filename, fails) ==
    LET r == resize_icon_try(target_size, target_filename, fails)
    IN [files |-> r.files, line |-> r.line, raised |-> FALSE]

\* the test without its exception for FIX_ICON
NeedsCreate_NoException(target_filename) ==
    target_filename \notin DOMAIN files

\* the test of main's loop: os.path.exists(target_path), but for FIX_ICON
NeedsCreate(target_filename) ==
    target_filename \notin DOMAIN files \/ target_filename = FIX_ICON

\* one iteration of main's loop
ResizeEntry ==
    /\ script = RESIZE
    /\ pc = "loop"
    /\ i <= Len(RESIZE_ICON_SIZES)
    /\ LET target_size     == RESIZE_ICON_SIZES[i][1]
           target_filename == RESIZE_ICON_SIZES[i][2]
           r == resize_icon(target_size, target_filename, i \in failing)
       IN IF NeedsCreate(target_filename)
          THEN /\ files' = r.files
               /\ log' = Append(log, r.line)
               /\ pc' = IF r.raised THEN "crashed" ELSE pc
               /\ i' = IF r.raised THEN i ELSE i + 1
          ELSE /\ files' = files
               /\ log' = Append(log, <<"skipped", target_filename>>)
               /\ pc' = pc
               /\ i' = i + 1
    /\ UNCHANGED <<script, font, srcExists, failing, failAt, dirExists, run, atStart>>
    /\ UNCHANGED <<renderVars, nameVars>>

\* the loop is over: "Icon generation complete!"
MainDone ==
    /\ script = RESIZE
    /\ pc = "loop"
    /\ i > Len(RESIZE_ICON_SIZES)
    /\ pc' = "done"
    /\ log' = Append(log, <<"complete", "">>)
    /\ UNCHANGED <<script, font, srcExists, failing, failAt, dirExists, files, i, run,
                   atStart>>
    /\ UNCHANGED <<renderVars, nameVars>>

\* the script is invoked again, on the directory the last run left
RunAgain ==
    /\ pc = "done"
    /\ run < MaxRuns
    /\ run' = run + 1
    /\ pc' = "start"
    /\ i' = 1
    /\ log' = <<>>
    /\ atStart' = Snapshot
    /\ UNCHANGED <<script, font, srcExists, failing, failAt, dirExists, files>>
    /\ UNCHANGED <<renderVars, nameVars>>

Init == BatchInit /\ RenderIdle /\ NameIdle

Next ==
    \/ MakeDirs
    \/ RenderEntry
    \/ RenderDone
    \/ MainCheckSource
    \/ ResizeEntry
    \/ MainDone
    \/ RunAgain

Spec == Init /\ [][Next]_vars


(***************************************************************************)
(* SpecRender: create_bond_to_ten_icon on one dimension, step by step      *)
(***************************************************************************)
TableDims == { ICON_SIZES[k][1] : k \in DOMAIN ICON_SIZES }
Dims == (1..MaxDim) \cup TableDims

RenderInit ==
    /\ rScript \in RenderScripts
    /\ rSize \in Dims
    /\ rFont \in Fonts
    /\ rPc = "new"
    /\ rShapes = {}
    /\ rLabels = {}
    /\ rImg = [w |-> 0, h |-> 0]

NewImage ==
    /\ rPc = "new"
    /\ rImg' = ImageNew(rSize)
    /\ rPc' = "hundred"
    /\ UNCHANGED <<rScript, rSize, rFont, rShapes, rLabels>>
    /\ UNCHANGED <<batchVars, nameVars>>

DrawHundred ==
    /\ rPc = "hundred"
    /\ rShapes' = rShapes \cup HundredCells(rScript, rSize)
    /\ rLabels' = rLabels \cup HundredLabel(rScript, rSize, rFont)
    /\ rPc' = "ten"
    /\ UNCHANGED <<rScript, rSize, rFont, rImg>>
    /\ UNCHANGED <<batchVars, nameVars>>

DrawTen ==
    /\ rPc = "ten"
    /\ rShapes' = rShapes \cup TenCells(rScript, rSize)
    /\ rLabels' = rLabels \cup TenLabel(rScript, rSize, rFont)
    /\ rPc' = "unit"
    /\ UNCHANGED <<rScript, rSize, rFont, rImg>>
    /\ UNCHANGED <<batchVars, nameVars>>

DrawUnit ==
    /\ rPc = "unit"
    /\ rShapes' = rShapes \cup UnitSquare(rScript, rSize)
    /\ rLabels' = rLabels \cup UnitLabel(rScript, rSize, rFont)
    /\ rPc' = "border"
    /\ UNCHANGED <<rScript, rSize, rFont, rImg>>
    /\ UNCHANGED <<batchVars, nameVars>>

DrawBorder ==
    /\ rPc = "border"
    /\ rShapes' = rShapes \cup Border(rScript, rSize)
    /\ rPc' = "done"
    /\ UNCHANGED <<rScript, rSize, rFont, rImg, rLabels>>
    /\ UNCHANGED <<batchVars, nameVars>>

InitRender == RenderInit /\ BatchIdle /\ NameIdle

NextRender == NewImage \/ DrawHundred \/ DrawTen \/ DrawUnit \/ DrawBorder

SpecRender == InitRender /\ [][NextRender]_vars

(***************************************************************************)
(* SpecName: the naming step of generate_ios_icons on any (size, scale),   *)
(* beside the name of one entry of the table                               *)
(***************************************************************************)
\* the three labels of the table and one that no branch knows
ScaleLabels == {"@1x", "@2x", "@3x", "@4x"}

NameInit ==
    /\ nScript \in RenderScripts
    /\ nSize \in Dims
    /\ nScale \in ScaleLabels
    /\ nOther \in DOMAIN ICON_SIZES
    /\ nPc = "input"
    /\ nFile = ""
    /\ nOtherFile = ""
    /\ nWritten = FALSE

\* the filename the loop body computes for (size, scale), lines 144-177
name_for(s, size, scale) == FilenameFor(size, base_size(s, size, scale), scale)

\* the loop body on the input and on the table entry: name, then icon.save
NameEntry ==
    /\ nPc = "input"
    /\ nFile' = name_for(nScript, nSize, nScale)
    /\ nOtherFile' = name_for(nScript, ICON_SIZES[nOther][1], ICON_SIZES[nOther][2])
    /\ nWritten' = TRUE
    /\ nPc' = "named"
    /\ UNCHANGED <<nScript, nSize, nScale, nOther>>
    /\ UNCHANGED <<batchVars, renderVars>>

InitName == NameInit /\ BatchIdle /\ RenderIdle

NextName == NameEntry

SpecName == InitName /\ [][NextName]_vars


(***************************************************************************)
(* Claims about the file namer (SpecName)                                  *)
(***************************************************************************)
ScaleFactor(scale) == IF scale = "@2x" THEN 2 ELSE IF scale = "@3x" THEN 3 ELSE 1

\* the nominal point size a pixel size stands for at a scale, as the icon
\* catalog writes it: 167 pixels at @2x are 83.5 points
PointsText(size, scale) ==
    IF size % ScaleFactor(scale) = 0 THEN ToString(size \div ScaleFactor(scale))
    ELSE IF ScaleFactor(scale) = 2 THEN ToString(size \div 2) \o ".5"
    ELSE "?"

\* Icon-App-<base><scale>.png, and the store icon for 1024
CatalogName(size, scale) ==
    IF size = STORE_SIZE THEN STORE_ICON
    ELSE "Icon-App-" \o PointsText(size, scale) \o "x" \o PointsText(size, scale)
         \o scale \o ".png"

InTable(size, scale) == <<size, scale>> \in Range(ICON_SIZES)

\* C1: over the 15 entries of ICON_SIZES the filename of the render scripts is
\* total and injective: every entry gets a name Icon-App-<base><scale>.png and
\* is written under it, two distinct entries never get the same name, and size
\* 1024 gets Icon-App-1024x1024@1x.png whatever the scale label.
C1_NameTotalInjective ==
    nPc = "named" =>
      /\ InTable(nSize, nScale) =>
            /\ nWritten
            /\ nFile = CatalogName(nSize, nScale)
            /\ ICON_SIZES[nOther] # <<nSize, nScale>> => nFile # nOtherFile
      /\ nSize = STORE_SIZE => nFile = STORE_ICON

\* the two entries of 120 pixels get the names of 60 points @2x and of
\* 40 points @3x
C1_Witness ==
    /\ nPc = "named"
    /\ nSize = 120 /\ nScale = "@2x" /\ ICON_SIZES[nOther] = <<120, "@3x">>
    /\ nFile = "Icon-App-60x60@2x.png"
    /\ nOtherFile = "Icon-App-40x40@3x.png"

\* a (size, scale) that no branch of the chain names
Unmapped(s, size, scale) ==
    /\ size \notin {STORE_SIZE, IPAD_PRO_SIZE}
    /\ base_size(s, size, scale) \notin {20, 29, 40, 60, 76}

\* C7 as claimed: on a (size, scale) outside the table's base sizes the
\* mapping fails loudly: no filename is produced and no file is written.
C7_FailsLoudly ==
    (nPc = "named" /\ Unmapped(nScript, nSize, nScale)) =>
        nFile = "" /\ ~nWritten

\* C7 as amended: on such a (size, scale) the mapping does not fail: it
\* produces the name Icon-App-<size>x<size>.png, which has the pixel size and
\* no scale label, and the file is written under that name.
C7_FallbackName ==
    (nPc = "named" /\ Unmapped(nScript, nSize, nScale)) =>
        /\ nWritten
        /\ nFile = "Icon-App-" \o ToString(nSize) \o "x" \o ToString(nSize) \o ".png"

C7_Witness ==
    /\ nPc = "named"
    /\ nSize = 50 /\ nScale = "@2x"
    /\ Unmapped(nScript, nSize, nScale)
    /\ nFile = "Icon-App-50x50.png"
    /\ nWritten

(***************************************************************************)
(* Claims about the renderer (SpecRender)                                  *)
(***************************************************************************)
CellSize(s, size) == IF s = BOND THEN bond_cell_size(size) ELSE gen_cell_size(size)

Drawn(kind) == { b \in rShapes : b.kind = kind }

PositiveExtent(b) == b.x2 > b.x1 /\ b.y2 > b.y1

\* C9 as claimed, for the dimensions the claim names: once the hundred block
\* is drawn, for every dimension of ICON_SIZES (each has a cell size
\* max(1, hundred_size // 10) of at least 1, as every dimension has) the block
\* has exactly 100 cells, 10 rows by 10 columns.
C9_HundredCells ==
    (/\ rPc \in {"ten", "unit", "border", "done"}
     /\ rSize \in TableDims
     /\ CellSize(rScript, rSize) >= 1) =>
        Cardinality(Drawn("hundred")) = 100

EntryName(k) ==
    IF script = RESIZE THEN RESIZE_ICON_SIZES[k][2]
    ELSE CatalogName(ICON_SIZES[k][1], ICON_SIZES[k][2])

TableNames == { EntryName(k) : k \in DOMAIN Table }

\* the image a run newly produces for entry k
NewImageOf(k) ==
    IF script = RESIZE
    THEN [w |-> RESIZE_ICON_SIZES[k][1], h |-> RESIZE_ICON_SIZES[k][1],
          origin |-> SOURCE_ICON, shapes |-> 0, labels |-> 0]
    ELSE create_bond_to_ten_icon(script, ICON_SIZES[k][1], font)

\* a finished run in which nothing failed: a render run, or a resize run
\* with its source, its directory and no failing entry
Successful ==
    /\ pc = "done"
    /\ script = RESIZE => srcExists /\ dirExists /\ failing = {}

EmptyAtStart == atStart.dir /\ DOMAIN atStart.files = {}

\* C2: from an empty output directory one complete run leaves exactly one
\* file per table entry and no other file (15 for the render variants, 11 for
\* the resize variant when the source exists and every resize succeeds), and
\* Icon-App-1024x1024@1x.png holds an image of 1024x1024 pixels.
C2_OneFilePerEntry ==
    (run = 1 /\ Successful /\ EmptyAtStart) =>
        /\ DOMAIN files = TableNames
        /\ Cardinality(DOMAIN files) = Len(Table)
        /\ Len(Table) = IF script = RESIZE THEN 11 ELSE 15
        /\ files[STORE_ICON].w = 1024 /\ files[STORE_ICON].h = 1024

C2_Witness ==
    /\ run = 1 /\ Successful /\ EmptyAtStart
    /\ script = GENERATE
    /\ Cardinality(DOMAIN files) = 15
    /\ files[STORE_ICON].w = 1024
    /\ "Icon-App-83.5x83.5@2x.png" \in DOMAIN files

\* C3: in the resize variant, when the source image does not exist, the run
\* reports it and ends without calling resize_icon for any entry: no file of
\* the output directory is created or modified, whatever the directory held.
C3_MissingSourceAborts ==
    (script = RESIZE /\ ~srcExists) =>
        /\ pc \in {"start", "done"}
        /\ files = atStart.files /\ dirExists = atStart.dir
        /\ \A k \in DOMAIN log : log[k][1] \notin {"created", "error", "skipped"}
        /\ pc = "done" => log = << <<"source_not_found", SOURCE_ICON>> >>

\* the run has ended on the missing source, and even the file that is
\* otherwise always rewritten is as it was
C3_Witness ==
    /\ script = RESIZE /\ ~srcExists /\ pc = "done"
    /\ log = << <<"source_not_found", SOURCE_ICON>> >>
    /\ FIX_ICON \in DOMAIN files /\ files[FIX_ICON] = OldImage

\* C4: in the resize variant a failure for one entry is caught and logged and
\* does not stop the loop: whatever entries fail, each of the 11 entries is
\* processed (resized or skipped) in table order and the run reaches its
\* completion message.
C4_LoopSurvivesFailures ==
    (script = RESIZE /\ srcExists /\ pc # "start") =>
        /\ pc \in {"loop", "done"}
        /\ \A k \in 1..(i - 1) :
              /\ k <= Len(log)
              /\ log[k][1] \in {"created", "error", "skipped"}
              /\ log[k][2] = RESIZE_ICON_SIZES[k][2]
              /\ (k \in failing \/ ~dirExists) => log[k][1] # "created"
        /\ pc = "loop" => /\ Len(log) = i - 1
                          /\ ENABLED (ResizeEntry \/ MainDone)
        /\ pc = "done" => /\ i = Len(RESIZE_ICON_SIZES) + 1
                          /\ Len(log) = Len(RESIZE_ICON_SIZES) + 1
                          /\ log[Len(log)] = <<"complete", "">>

\* the first entry failed, the second was created, the run completed
C4_Witness ==
    /\ script = RESIZE /\ srcExists /\ pc = "done" /\ dirExists
    /\ failing = {1}
    /\ log[1] = <<"error", "Icon-App-20x20@2x.png">>
    /\ log[2] = <<"created", "Icon-App-20x20@3x.png">>
    /\ log[12] = <<"complete", "">>

\* C5 as claimed: in every variant a successful run writes the new image of
\* every table entry, over any file of that name: after the run no file the
\* table names holds content from before the run.
C5_AlwaysOverwrites ==
    Successful =>
        \A k \in DOMAIN Table :
            /\ EntryName(k) \in DOMAIN files
            /\ files[EntryName(k)] = NewImageOf(k)

\* C5 as amended: a successful run of a render variant writes the new image
\* of every table entry, over any file of that name. A successful run of the
\* resize variant writes the new image of an entry only when no file of that
\* name exists or the name is Icon-App-60x60@2x.png; otherwise it skips the
\* entry and the file keeps the content it had before the run.
C5_OverwritesUnlessSkipped ==
    Successful =>
        \A k \in DOMAIN Table :
            /\ EntryName(k) \in DOMAIN files
            /\ files[EntryName(k)] =
                 IF \/ script \in RenderScripts
                    \/ EntryName(k) \notin DOMAIN atStart.files
                    \/ EntryName(k) = FIX_ICON
                 THEN NewImageOf(k)
                 ELSE atStart.files[EntryName(k)]

\* after a successful first resize run the old store icon is still there and
\* the old Icon-App-60x60@2x.png has been replaced
C5_Witness ==
    /\ script = RESIZE /\ run = 1 /\ Successful
    /\ {STORE_ICON, FIX_ICON} \subseteq DOMAIN atStart.files
    /\ atStart.files[STORE_ICON] = OldImage /\ files[STORE_ICON] = OldImage
    /\ atStart.files[FIX_ICON] = OldImage
    /\ files[FIX_ICON].w = 120 /\ files[FIX_ICON].origin = SOURCE_ICON

\* a position of the run from which entries are written
Writing == pc \in {"loop", "done"} /\ (script = RESIZE => srcExists)

\* C6: every variant, the resize variant too, has made sure that the output
\* directory exists before its first write: from the position where entries
\* are written on, the directory exists.
C6_DirectoryEnsured ==
    Writing => dirExists

\* C8: running the batch twice in a row on the same inputs is idempotent:
\* from any initial directory the contents after the second run (file names
\* and the content of each file) are the contents after the first.
C8_Idempotent ==
    (run >= 2 /\ pc = "done") =>
        /\ files = atStart.files
        /\ dirExists = atStart.dir

\* the second resize run has ended: an old file was skipped twice, and the
\* save of the always-rewritten file failed twice, leaving it unfinished as
\* after run one
C8_Witness ==
    /\ script = RESIZE /\ run = 2 /\ pc = "done" /\ srcExists
    /\ failing = {8} /\ failAt = "save_partial"
    /\ files[FIX_ICON] = PartialImage /\ atStart.files[FIX_ICON] = PartialImage
    /\ files[STORE_ICON] = OldImage
    /\ log[8] = <<"error", FIX_ICON>>
    /\ log[1] = <<"skipped", "Icon-App-20x20@2x.png">>


====
